---------------------------- MODULE Spec2Model ----------------------------
(***************************************************************************)
(* The live interaction session of the chat application (the App           *)
(* component in src/unnamed/part_013 with the WebSocket transport of       *)
(* src/unnamed/part_001): start / stop / retry, the reconnect policy, the  *)
(* inbound message handler, the transcript aggregator and its safety       *)
(* timer.                                                                  *)
(*                                                                         *)
(* One step of the model is one task of the browser's event loop: a        *)
(* handler runs from its entry (or from the point where an awaited promise *)
(* resumed it) up to its next await that really suspends.  A suspended     *)
(* handler is a record in the bag `pending`.  Every handler of the source  *)
(* is an operator from the state record to the state record, so that a     *)
(* handler that calls another one is the composition of the two.           *)
(***************************************************************************)
EXTENDS Integers, Sequences, FiniteSets, Bags, TLC

\* ---------------------------------------------------------------- bounds
MaxStarts     == 2   \* clicks on the voice button (startInteractionMode)
MaxStops      == 1   \* clicks on the overlay's close button
MaxRetries    == 1   \* clicks on the overlay's Retry button
MaxFaults     == 2   \* moves of the environment that are failures: transport
                     \* failures, server closes, unparsable frames, denied
                     \* permission prompts, device tracks ended from outside
MaxTransports == 3   \* sockets opened before the backoff timer stops firing
MaxFragments  == 2   \* transcript fragments received
MaxSignals    == 2   \* turnComplete / interrupted messages received
MaxAudio      == 1   \* inbound messages that carry audio
MaxBuffers    == 2   \* audio messages of the playback specification
MaxClock      == 3   \* ticks of the audio clock
MaxAttempts   == 6   \* consecutive refused connections
MaxFrames     == 2   \* blocks of samples the capture processor delivers
MaxRejects    == 1   \* saveMessage calls that are rejected
MaxConnections == 3  \* client sockets the live proxy of the server accepts

\* ------------------------------------------------------ program constants
BaseDelay     == 250    \* scheduleReconnect: 250 * 2^(attempt-1)
MaxDelay      == 4000   \* scheduleReconnect: Math.min(4000, ...)
JitterWindow  == 250    \* scheduleReconnect: Math.floor(Math.random() * 250)

VARIABLES
  \* React state of the component
  interactionStatus, interactionError, isInteractionMode, isLoading,
  isSpeaking, isListening, isInteractionStreaming,
  uiStreaming, uiWarnings,
  \* refs of the reconnect policy
  stopRequestedRef, reconnectingRef, reconnectAttemptsRef, reconnectTimerRef,
  \* devices, transport, audio graph
  streams, visionStreamRef, streamRef,
  transports, liveSessionRef,
  inputAudioContextRef, outputAudioContextRef, openContexts,
  mediaSourceRef, frameIntervalRef,
  \* playback cursor
  sourcesRef, nextStartTimeRef, clock, srcSeq,
  stoppedSources, endedSources, resets,
  \* transcript aggregator
  currentInputTransRef, currentOutputTransRef,
  lastUserMsgIdRef, lastDronaMsgIdRef, msgSeq,
  transcriptTimeoutRef, timers, timerSeq, firstTranscriptTimeRef,
  \* suspended handlers, the persistence collaborator, the arrival log
  pending, saved, received,
  \* the environment's moves so far (bounded in the guards)
  starts, stops, retries, faults, timeoutsFired,
  attached, frameSeq, sentFrames, rejected, intervals,
  \* whether activeSessionIdRef holds the id of a chat session
  activeSessionIdRef,
  \* the server's live proxy: per accepted client socket, the socket, the
  \* upstream session, whether the socket's listeners are registered
  connections

vars == << interactionStatus, interactionError, isInteractionMode, isLoading,
           isSpeaking, isListening, isInteractionStreaming,
           uiStreaming, uiWarnings,
           stopRequestedRef, reconnectingRef, reconnectAttemptsRef,
           reconnectTimerRef,
           streams, visionStreamRef, streamRef, transports, liveSessionRef,
           inputAudioContextRef, outputAudioContextRef, openContexts,
           mediaSourceRef, frameIntervalRef,
           sourcesRef, nextStartTimeRef, clock, srcSeq,
           stoppedSources, endedSources, resets,
           currentInputTransRef, currentOutputTransRef,
           lastUserMsgIdRef, lastDronaMsgIdRef, msgSeq,
           transcriptTimeoutRef, timers, timerSeq, firstTranscriptTimeRef,
           pending, saved, received,
           starts, stops, retries, faults, timeoutsFired,
           attached, frameSeq, sentFrames, rejected, intervals,
           activeSessionIdRef, connections >>

\* The state as one record: the handlers below are functions of it.
State ==
  [ interactionStatus |-> interactionStatus,
    interactionError |-> interactionError,
    isInteractionMode |-> isInteractionMode,
    isLoading |-> isLoading,
    isSpeaking |-> isSpeaking,
    isListening |-> isListening,
    isInteractionStreaming |-> isInteractionStreaming,
    uiStreaming |-> uiStreaming,
    uiWarnings |-> uiWarnings,
    stopRequestedRef |-> stopRequestedRef,
    reconnectingRef |-> reconnectingRef,
    reconnectAttemptsRef |-> reconnectAttemptsRef,
    reconnectTimerRef |-> reconnectTimerRef,
    streams |-> streams,
    visionStreamRef |-> visionStreamRef,
    streamRef |-> streamRef,
    transports |-> transports,
    liveSessionRef |-> liveSessionRef,
    inputAudioContextRef |-> inputAudioContextRef,
    outputAudioContextRef |-> outputAudioContextRef,
    openContexts |-> openContexts,
    mediaSourceRef |-> mediaSourceRef,
    frameIntervalRef |-> frameIntervalRef,
    sourcesRef |-> sourcesRef,
    nextStartTimeRef |-> nextStartTimeRef,
    clock |-> clock,
    srcSeq |-> srcSeq,
    stoppedSources |-> stoppedSources,
    endedSources |-> endedSources,
    resets |-> resets,
    currentInputTransRef |-> currentInputTransRef,
    currentOutputTransRef |-> currentOutputTransRef,
    lastUserMsgIdRef |-> lastUserMsgIdRef,
    lastDronaMsgIdRef |-> lastDronaMsgIdRef,
    msgSeq |-> msgSeq,
    transcriptTimeoutRef |-> transcriptTimeoutRef,
    timers |-> timers,
    timerSeq |-> timerSeq,
    firstTranscriptTimeRef |-> firstTranscriptTimeRef,
    pending |-> pending,
    saved |-> saved,
    received |-> received,
    starts |-> starts,
    stops |-> stops,
    retries |-> retries,
    faults |-> faults,
    timeoutsFired |-> timeoutsFired,
    attached |-> attached,
    frameSeq |-> frameSeq,
    sentFrames |-> sentFrames,
    rejected |-> rejected,
    intervals |-> intervals,
    activeSessionIdRef |-> activeSessionIdRef,
    connections |-> connections ]

\* The step that leaves the program in state s.
Commit(s) ==
  /\ interactionStatus' = s.interactionStatus
  /\ interactionError' = s.interactionError
  /\ isInteractionMode' = s.isInteractionMode
  /\ isLoading' = s.isLoading
  /\ isSpeaking' = s.isSpeaking
  /\ isListening' = s.isListening
  /\ isInteractionStreaming' = s.isInteractionStreaming
  /\ uiStreaming' = s.uiStreaming
  /\ uiWarnings' = s.uiWarnings
  /\ stopRequestedRef' = s.stopRequestedRef
  /\ reconnectingRef' = s.reconnectingRef
  /\ reconnectAttemptsRef' = s.reconnectAttemptsRef
  /\ reconnectTimerRef' = s.reconnectTimerRef
  /\ streams' = s.streams
  /\ visionStreamRef' = s.visionStreamRef
  /\ streamRef' = s.streamRef
  /\ transports' = s.transports
  /\ liveSessionRef' = s.liveSessionRef
  /\ inputAudioContextRef' = s.inputAudioContextRef
  /\ outputAudioContextRef' = s.outputAudioContextRef
  /\ openContexts' = s.openContexts
  /\ mediaSourceRef' = s.mediaSourceRef
  /\ frameIntervalRef' = s.frameIntervalRef
  /\ sourcesRef' = s.sourcesRef
  /\ nextStartTimeRef' = s.nextStartTimeRef
  /\ clock' = s.clock
  /\ srcSeq' = s.srcSeq
  /\ stoppedSources' = s.stoppedSources
  /\ endedSources' = s.endedSources
  /\ resets' = s.resets
  /\ currentInputTransRef' = s.currentInputTransRef
  /\ currentOutputTransRef' = s.currentOutputTransRef
  /\ lastUserMsgIdRef' = s.lastUserMsgIdRef
  /\ lastDronaMsgIdRef' = s.lastDronaMsgIdRef
  /\ msgSeq' = s.msgSeq
  /\ transcriptTimeoutRef' = s.transcriptTimeoutRef
  /\ timers' = s.timers
  /\ timerSeq' = s.timerSeq
  /\ firstTranscriptTimeRef' = s.firstTranscriptTimeRef
  /\ pending' = s.pending
  /\ saved' = s.saved
  /\ received' = s.received
  /\ starts' = s.starts
  /\ stops' = s.stops
  /\ retries' = s.retries
  /\ faults' = s.faults
  /\ timeoutsFired' = s.timeoutsFired
  /\ attached' = s.attached
  /\ frameSeq' = s.frameSeq
  /\ sentFrames' = s.sentFrames
  /\ rejected' = s.rejected
  /\ intervals' = s.intervals
  /\ activeSessionIdRef' = s.activeSessionIdRef
  /\ connections' = s.connections

\* ------------------------------------------------------------ vocabulary
Statuses == { "idle", "requesting_permissions", "connecting", "active",
              "reconnecting", "error" }

\* Text is a sequence of characters; characters are numbered: 0 is a blank,
\* n > 0 is the text of the n-th fragment that arrived, so that the origin
\* and the order of every piece of persisted text can be read off.
Blank == 0

\* The character that stands for the text of the timeout warning.
Warning == -1

\* A message of the server (LiveServerMessage.serverContent): the audio part,
\* the interrupted flag, the two partial transcripts (<<>> when absent) and
\* the turnComplete flag.
Msg(audio, interrupted, inTxt, outTxt, turnComplete) ==
  [ audio |-> audio, interrupted |-> interrupted, inTxt |-> inTxt,
    outTxt |-> outTxt, turnComplete |-> turnComplete ]

NoMsg == Msg(FALSE, FALSE, <<>>, <<>>, FALSE)

\* A suspended handler: k is the await it is suspended in, n a stream or a
\* message id it holds in a local, t the isTimeout argument of a finalize,
\* s whether hardStopInteractionMode awaits this finalize, msg the message
\* of a suspended onLiveMessage.
Cont(k, n, t, s, msg) == [ k |-> k, n |-> n, t |-> t, s |-> s, msg |-> msg ]

Suspend(s, c) == [s EXCEPT !.pending = @ (+) SetToBag({c})]
Resume(s, c) == [s EXCEPT !.pending = @ (-) SetToBag({c})]

Pending(k) == { c \in BagToSet(pending) : c.k = k }
NPending(k) ==
  LET cs == Pending(k)
      RECURSIVE Sum(_)
      Sum(S) == IF S = {} THEN 0
                ELSE LET c == CHOOSE x \in S : TRUE
                     IN CopiesIn(c, pending) + Sum(S \ {c})
  IN Sum(cs)

Max(a, b) == IF a >= b THEN a ELSE b
Min(a, b) == IF a <= b THEN a ELSE b

RECURSIVE Pow2(_)
Pow2(n) == IF n <= 0 THEN 1 ELSE 2 * Pow2(n - 1)

\* String.prototype.trim: the text without its leading and trailing blanks.
RECURSIVE TrimStart(_)
TrimStart(txt) ==
  IF txt # <<>> /\ Head(txt) = Blank THEN TrimStart(Tail(txt)) ELSE txt

RECURSIVE TrimEnd(_)
TrimEnd(txt) ==
  IF txt # <<>> /\ txt[Len(txt)] = Blank
  THEN TrimEnd(SubSeq(txt, 1, Len(txt) - 1)) ELSE txt

Trim(txt) == TrimEnd(TrimStart(txt))

\* ------------------------------------------------------------- playback
\* A variant of stopAllAudio that resets the cursor to the audio clock.
stopAllAudioToNow(s) ==
  [s EXCEPT !.stoppedSources = @ \cup s.sourcesRef,
            !.resets = @ + 1,
            !.sourcesRef = {},
            !.nextStartTimeRef = s.clock]

\* stopAllAudio: stop every source of sourcesRef, clear the set, reset the
\* cursor to 0.  (A stopped source delivers its ended event later; resets
\* counts the calls.)
stopAllAudio(s) ==
  [s EXCEPT !.stoppedSources = @ \cup s.sourcesRef,
            !.resets = @ + 1,
            !.sourcesRef = {},
            !.nextStartTimeRef = 0]

\* ------------------------------------------------- transcript aggregator
\* The saveMessage call of the persistence collaborator: what was handed to it.
SavedMsg(role, content, id, isTimeout) ==
  [ role |-> role, content |-> content, id |-> id, timeout |-> isTimeout ]

\* A variant of PersistedContent that persists the timeout warning too.
PersistedContentWithWarning(buf, isTimeout) ==
  IF isTimeout THEN Trim(buf) \o <<Warning>> ELSE Trim(buf)

\* The text saveMessage is given for a buffer.
PersistedContent(buf, isTimeout) == Trim(buf)

\* syncInteractionModeTranscription: on the first non-blank text of a turn
\* record firstTranscriptTimeRef and arm the 12 s safety timer (the ref is
\* overwritten, a timer it named is not cleared); then create or update, in
\* the session activeSessionIdRef names, the streaming message of each role
\* whose buffer is not empty.
syncInteractionModeTranscription(s) ==
  LET arm == /\ ~s.firstTranscriptTimeRef
             /\ \/ Trim(s.currentInputTransRef) # <<>>
                \/ Trim(s.currentOutputTransRef) # <<>>
      s1  == IF arm
             THEN [s EXCEPT !.firstTranscriptTimeRef = TRUE,
                            !.isInteractionStreaming = TRUE,
                            !.timerSeq = @ + 1,
                            !.transcriptTimeoutRef = s.timerSeq + 1,
                            !.timers = @ \cup {s.timerSeq + 1}]
             ELSE s
      s2  == IF s1.currentInputTransRef = <<>> \/ ~s.activeSessionIdRef
             THEN s1
             ELSE IF s1.lastUserMsgIdRef = 0
             THEN [s1 EXCEPT !.msgSeq = @ + 1,
                             !.lastUserMsgIdRef = s1.msgSeq + 1,
                             !.uiStreaming = @ \cup {s1.msgSeq + 1}]
             ELSE [s1 EXCEPT !.uiStreaming = @ \cup {s1.lastUserMsgIdRef}]
      s3  == IF s2.currentOutputTransRef = <<>> \/ ~s.activeSessionIdRef
             THEN s2
             ELSE IF s2.lastDronaMsgIdRef = 0
             THEN [s2 EXCEPT !.msgSeq = @ + 1,
                             !.lastDronaMsgIdRef = s2.msgSeq + 1,
                             !.uiStreaming = @ \cup {s2.msgSeq + 1}]
             ELSE [s2 EXCEPT !.uiStreaming = @ \cup {s2.lastDronaMsgIdRef}]
  IN s3

\* hardStopInteractionMode after its await of finalizeTranscriptTurn: cancel
\* the reconnect and the transcript timer, reset the reconnect refs, clear the
\* frame interval, detach the capture pipeline, stop and drop both streams,
\* close and drop the transport and both audio contexts; then it awaits
\* refreshSessions.
hardStopTeardown(s) ==
  LET stopTracks(ss, i) == IF i = 0 THEN ss ELSE [ss EXCEPT ![i].live = FALSE]
      closeWs(ts, i) ==
        IF i # 0 /\ ts[i].st \in {"connecting", "open"}
        THEN [ts EXCEPT ![i].st = "closing"] ELSE ts
      nCtx == (IF s.inputAudioContextRef THEN 1 ELSE 0)
              + (IF s.outputAudioContextRef THEN 1 ELSE 0)
      s1 == [s EXCEPT
               !.reconnectTimerRef = 0,
               !.timers = @ \ {s.transcriptTimeoutRef},
               !.transcriptTimeoutRef = 0,
               !.reconnectingRef = FALSE,
               !.reconnectAttemptsRef = 0,
               !.intervals = IF s.frameIntervalRef THEN @ - 1 ELSE @,
               !.frameIntervalRef = FALSE,
               !.attached = IF s.mediaSourceRef # 0 THEN @ - 1 ELSE @,
               !.mediaSourceRef = 0,
               !.streams = stopTracks(stopTracks(@, s.streamRef),
                                      s.visionStreamRef),
               !.streamRef = 0,
               !.visionStreamRef = 0,
               !.transports = closeWs(@, s.liveSessionRef),
               !.liveSessionRef = 0,
               !.openContexts = @ - nCtx,
               !.inputAudioContextRef = FALSE,
               !.outputAudioContextRef = FALSE]
  IN Suspend(s1, Cont("refreshSessions", 0, FALSE, FALSE, NoMsg))

\* finalizeTranscriptTurn, lines 907-949: the setSessions updater settles the
\* streaming flag of the two messages and, for a timeout, pushes the warning
\* message, both only if a message id is still in the refs when the updater
\* runs; then the flags, buffers, ids and firstTranscriptTimeRef are cleared.
\* React runs the updater at once (eager) or at the next render, which is
\* after the refs were set to null by the lines that follow it.
finalizeSettle(s, isTimeout, eager) ==
  LET ids == IF eager
             THEN {s.lastUserMsgIdRef, s.lastDronaMsgIdRef} \ {0} ELSE {}
  IN [s EXCEPT !.uiStreaming = @ \ ids,
               !.uiWarnings = IF isTimeout /\ ids # {} THEN @ + 1 ELSE @,
               !.isInteractionStreaming = FALSE,
               !.isListening = FALSE,
               !.currentInputTransRef = <<>>,
               !.currentOutputTransRef = <<>>,
               !.lastUserMsgIdRef = 0,
               !.lastDronaMsgIdRef = 0,
               !.firstTranscriptTimeRef = FALSE]

\* The end of finalizeTranscriptTurn and, when hardStopInteractionMode was
\* awaiting it, the rest of hardStopInteractionMode.
finalizeEnd(s, isTimeout, byStop, eager) ==
  LET s1 == finalizeSettle(s, isTimeout, eager)
  IN IF byStop THEN hardStopTeardown(s1) ELSE s1

\* finalizeTranscriptTurn, lines 883-905: save the assistant's text if it is
\* not blank, and suspend in the call.
finalizeDrona(s, isTimeout, byStop, eager) ==
  IF Trim(s.currentOutputTransRef) # <<>>
  THEN LET fresh == s.lastDronaMsgIdRef = 0
           id == IF fresh THEN s.msgSeq + 1 ELSE s.lastDronaMsgIdRef
           s1 == [s EXCEPT
                    !.msgSeq = IF fresh THEN @ + 1 ELSE @,
                    !.saved = Append(@, SavedMsg("drona",
                                PersistedContent(s.currentOutputTransRef,
                                                 isTimeout), id, isTimeout))]
       IN Suspend(s1, Cont("saveDrona", id, isTimeout, byStop, NoMsg))
  ELSE finalizeEnd(s, isTimeout, byStop, eager)

\* A variant of finalizeUser that tests the buffer without trimming it.
finalizeUserUntrimmed(s, isTimeout, byStop, eager) ==
  IF s.currentInputTransRef # <<>>
  THEN LET fresh == s.lastUserMsgIdRef = 0
           id == IF fresh THEN s.msgSeq + 1 ELSE s.lastUserMsgIdRef
           s1 == [s EXCEPT
                    !.msgSeq = IF fresh THEN @ + 1 ELSE @,
                    !.saved = Append(@, SavedMsg("user",
                                PersistedContent(s.currentInputTransRef,
                                                 isTimeout), id, isTimeout))]
       IN Suspend(s1, Cont("saveUser", id, isTimeout, byStop, NoMsg))
  ELSE finalizeDrona(s, isTimeout, byStop, eager)

\* finalizeTranscriptTurn, lines 859-881: save the user's text if it is not
\* blank, and suspend in the call.
finalizeUser(s, isTimeout, byStop, eager) ==
  IF Trim(s.currentInputTransRef) # <<>>
  THEN LET fresh == s.lastUserMsgIdRef = 0
           id == IF fresh THEN s.msgSeq + 1 ELSE s.lastUserMsgIdRef
           s1 == [s EXCEPT
                    !.msgSeq = IF fresh THEN @ + 1 ELSE @,
                    !.saved = Append(@, SavedMsg("user",
                                PersistedContent(s.currentInputTransRef,
                                                 isTimeout), id, isTimeout))]
       IN Suspend(s1, Cont("saveUser", id, isTimeout, byStop, NoMsg))
  ELSE finalizeDrona(s, isTimeout, byStop, eager)

\* finalizeTranscriptTurn(isTimeout) from its entry to its first await: the
\* safety timer named by the ref is cleared; with a session id in
\* activeSessionIdRef the texts are saved and the message list is settled,
\* without one both are skipped; no finalize in progress is checked for.
finalizeTranscriptTurn(s, isTimeout, byStop, eager) ==
  LET s1 == [s EXCEPT !.timers = @ \ {s.transcriptTimeoutRef},
                      !.transcriptTimeoutRef = 0]
  IN IF s.activeSessionIdRef
     THEN finalizeUser(s1, isTimeout, byStop, eager)
     ELSE finalizeEnd(s1, isTimeout, byStop, FALSE)

\* What a call of hardStopInteractionMode found: the status, whether a
\* backoff timer was pending, the number of sockets opened so far, the two
\* transcript buffers, whether a finalizeTranscriptTurn was suspended in
\* saveMessage.
StopCall(s) ==
  [ status |-> s.interactionStatus,
    timer |-> s.reconnectTimerRef # 0,
    sockets |-> Len(s.transports),
    input |-> s.currentInputTransRef,
    output |-> s.currentOutputTransRef,
    saving |-> \E c \in BagToSet(s.pending) : c.k \in {"saveUser", "saveDrona"} ]

\* hardStopInteractionMode from its entry to its first await.
hardStopInteractionMode(s, eager) ==
  LET s1 == stopAllAudio([s EXCEPT !.stops = Append(@, StopCall(s)),
                                   !.stopRequestedRef = TRUE,
                                   !.interactionStatus = "idle",
                                   !.isInteractionMode = FALSE,
                                   !.isSpeaking = FALSE,
                                   !.isListening = FALSE,
                                   !.isLoading = FALSE])
  IN IF s.isInteractionStreaming
     THEN finalizeTranscriptTurn(s1, FALSE, TRUE, eager)
     ELSE hardStopTeardown(s1)

\* ------------------------------------------------- devices and transport
hasLive(s, i) == i # 0 /\ s.streams[i].live
hasLiveAudio(s) == hasLive(s, s.streamRef)
hasLiveVideo(s) == hasLive(s, s.visionStreamRef)

\* getDisplayMedia / getUserMedia granted: a new stream with a live track.
Acquire(s, kind) == [s EXCEPT !.streams = Append(@, [kind |-> kind, live |-> TRUE])]
Newest(s) == Len(s.streams)

\* WebSocket.close(): a connecting or open socket starts closing, its close
\* event is delivered later; on a closing or closed socket nothing happens.
closeLiveSession(s) ==
  IF s.liveSessionRef # 0
  THEN [s EXCEPT !.transports =
                   IF @[s.liveSessionRef].st \in {"connecting", "open"}
                   THEN [@ EXCEPT ![s.liveSessionRef].st = "closing"] ELSE @,
                 !.liveSessionRef = 0]
  ELSE s

\* geminiService.connectLive: a new WebSocket, connecting, whose callbacks
\* are those of `origin` (startInteractionMode or reconnectLiveSession); the
\* session object it resolves to is stored in liveSessionRef in the same task.
connectLive(s, origin) ==
  [s EXCEPT !.transports = Append(@, [st |-> "connecting", origin |-> origin]),
            !.liveSessionRef = Len(s.transports) + 1]

\* A variant of ensureAudioCapturePipeline without the already-running check.
ensureAudioCapturePipelineUnguarded(s) ==
  IF ~s.inputAudioContextRef \/ s.streamRef = 0 THEN s
  ELSE [s EXCEPT !.mediaSourceRef = s.streamRef,
                 !.attached = @ + 1]

\* ensureAudioCapturePipeline: attach a source node for streamRef and a
\* processor, unless a context or the stream is missing or both nodes exist
\* (the two refs are set and cleared together; attached counts the pairs of
\* nodes that are connected).
ensureAudioCapturePipeline(s) ==
  IF ~s.inputAudioContextRef \/ s.streamRef = 0 THEN s
  ELSE IF s.mediaSourceRef # 0 THEN s
  ELSE [s EXCEPT !.mediaSourceRef = s.streamRef,
                 !.attached = @ + 1]

\* A variant of sendRealtimeInput without the readyState check.
sendRealtimeInputUnchecked(s, i, n) ==
  [s EXCEPT !.sentFrames = @ \cup {[frame |-> n, via |-> i]}]

\* The session object's sendRealtimeInput: ws.send only if the socket is
\* open; sentFrames records which frame went to which socket.
sendRealtimeInput(s, i, n) ==
  IF s.transports[i].st = "open"
  THEN [s EXCEPT !.sentFrames = @ \cup {[frame |-> n, via |-> i]}]
  ELSE s

\* The processor's onaudioprocess: the frame is converted and handed to the
\* transport of liveSessionRef, if there is one; nothing is kept.
onaudioprocess(s) ==
  LET s1 == [s EXCEPT !.frameSeq = @ + 1]
  IN IF s.liveSessionRef # 0
     THEN sendRealtimeInput(s1, s.liveSessionRef, s1.frameSeq)
     ELSE s1

\* softFailInteractionMode(msg): the overlay stays up, status error.
softFailInteractionMode(s, msg) ==
  [s EXCEPT !.isInteractionMode = TRUE,
            !.isLoading = FALSE,
            !.isListening = FALSE,
            !.isSpeaking = FALSE,
            !.interactionStatus = "error",
            !.interactionError = msg]

\* A variant of ReconnectDelay without the cap.
ReconnectDelayUncapped(attempt, jitter) ==
  BaseDelay * Pow2(attempt - 1) + jitter

\* The delay of reconnect attempt n with the drawn jitter.
ReconnectDelay(attempt, jitter) ==
  Min(MaxDelay, BaseDelay * Pow2(attempt - 1)) + jitter

\* scheduleReconnect(why, evt): ignored after stop or while reconnectingRef is
\* set; else count the attempt and arm the backoff timer.
scheduleReconnect(s, jitter) ==
  IF s.stopRequestedRef THEN s
  ELSE IF s.reconnectingRef THEN s
  ELSE [s EXCEPT !.reconnectingRef = TRUE,
                 !.interactionStatus = "reconnecting",
                 !.reconnectAttemptsRef = @ + 1,
                 !.interactionError = "live",
                 !.reconnectTimerRef =
                     ReconnectDelay(s.reconnectAttemptsRef + 1, jitter)]

\* A variant of startFrameInterval without the already-running check.
startFrameIntervalUnguarded(s) ==
  [s EXCEPT !.frameIntervalRef = TRUE, !.intervals = @ + 1]

\* The frame-capture setup of reconnectLiveSession (lines 661-684) and of the
\* start's onopen (808-826): setInterval only if frameIntervalRef is null;
\* intervals counts the registered timers.
startFrameInterval(s) ==
  IF s.frameIntervalRef THEN s
  ELSE [s EXCEPT !.frameIntervalRef = TRUE, !.intervals = @ + 1]

\* The interval's callback: if the video element has a frame, draw and
\* encode it and hand it to the transport of liveSessionRef, if there is
\* one; all of it in one task, nothing is kept.
frameIntervalFired(s, ready) ==
  IF ~ready THEN s
  ELSE LET s1 == [s EXCEPT !.frameSeq = @ + 1]
       IN IF s.liveSessionRef # 0
          THEN sendRealtimeInput(s1, s.liveSessionRef, s1.frameSeq)
          ELSE s1

\* reconnectLiveSession, lines 645-703: audio contexts only if null, capture
\* pipeline and frame interval only if not running, then a new transport.
reconnectConnect(s) ==
  LET nNew == (IF s.inputAudioContextRef THEN 0 ELSE 1)
              + (IF s.outputAudioContextRef THEN 0 ELSE 1)
      s1 == [s EXCEPT !.inputAudioContextRef = TRUE,
                      !.outputAudioContextRef = TRUE,
                      !.openContexts = @ + nNew]
      s2 == ensureAudioCapturePipeline(s1)
      s3 == IF s2.visionStreamRef # 0
            THEN startFrameInterval(s2) ELSE s2
  IN connectLive(s3, "reconnect")

\* reconnectLiveSession, lines 635-643: the microphone is requested only if
\* streamRef has no live track; the handler suspends in the request.
reconnectAcquireAudio(s) ==
  IF ~hasLiveAudio(s)
  THEN Suspend([s EXCEPT !.interactionStatus = "requesting_permissions"],
               Cont("reconnectAudio", 0, FALSE, FALSE, NoMsg))
  ELSE reconnectConnect(s)

\* reconnectLiveSession, lines 620-633: the screen is requested only if
\* visionStreamRef has no live track; the handler suspends in the request.
reconnectAcquireVideo(s) ==
  IF ~hasLiveVideo(s)
  THEN Suspend([s EXCEPT !.interactionStatus = "requesting_permissions"],
               Cont("reconnectVideo", 0, FALSE, FALSE, NoMsg))
  ELSE reconnectAcquireAudio(s)

\* reconnectLiveSession from its entry: the stop flag is checked here and
\* nowhere later; the current transport is closed and dropped.
reconnectLiveSession(s) ==
  IF s.stopRequestedRef THEN s
  ELSE reconnectAcquireVideo(
         closeLiveSession([s EXCEPT !.isInteractionMode = TRUE,
                                    !.interactionStatus = "connecting",
                                    !.isLoading = TRUE]))

\* A variant of startInteractionMode that returns at once while the overlay
\* is up.
startInteractionModeFailFast(s, eager) ==
  IF s.isInteractionMode THEN s
  ELSE Suspend([s EXCEPT !.stopRequestedRef = FALSE,
                         !.reconnectAttemptsRef = 0,
                         !.reconnectingRef = FALSE,
                         !.reconnectTimerRef = 0,
                         !.interactionError = "",
                         !.interactionStatus = "requesting_permissions",
                         !.activeSessionIdRef = TRUE,
                         !.isInteractionMode = TRUE,
                         !.isLoading = TRUE],
               Cont("startVideo", 0, FALSE, FALSE, NoMsg))

\* startInteractionMode from its entry to the screen request: a click while
\* the overlay is up stops the session instead; else the refs are reset and
\* activeSessionIdRef gets the id of the active or of a new chat session.
startInteractionMode(s, eager) ==
  IF s.isInteractionMode THEN hardStopInteractionMode(s, eager)
  ELSE Suspend([s EXCEPT !.stopRequestedRef = FALSE,
                         !.reconnectAttemptsRef = 0,
                         !.reconnectingRef = FALSE,
                         !.reconnectTimerRef = 0,
                         !.interactionError = "",
                         !.interactionStatus = "requesting_permissions",
                         !.activeSessionIdRef = TRUE,
                         !.isInteractionMode = TRUE,
                         !.isLoading = TRUE],
               Cont("startVideo", 0, FALSE, FALSE, NoMsg))

\* startInteractionMode resumed by getDisplayMedia (lines 761-770).
startVideoSettled(s, granted) ==
  IF granted
  THEN LET s1 == Acquire(s, "video")
       IN Suspend([s1 EXCEPT !.visionStreamRef = Newest(s1)],
                  Cont("startAudio", Newest(s1), FALSE, FALSE, NoMsg))
  ELSE softFailInteractionMode(s, "screen")

\* startInteractionMode resumed by getUserMedia (lines 772-836): new audio
\* contexts, status connecting, a new transport.  No flag is re-checked.
startAudioSettled(s, granted) ==
  IF granted
  THEN LET s1 == Acquire(s, "audio")
       IN connectLive([s1 EXCEPT !.streamRef = Newest(s1),
                                 !.inputAudioContextRef = TRUE,
                                 !.outputAudioContextRef = TRUE,
                                 !.openContexts = @ + 2,
                                 !.interactionStatus = "connecting"],
                      "start")
  ELSE softFailInteractionMode(s, "mic")

\* reconnectLiveSession resumed by getDisplayMedia (lines 624-633).
reconnectVideoSettled(s, granted) ==
  IF granted
  THEN LET s1 == Acquire(s, "video")
       IN reconnectAcquireAudio([s1 EXCEPT !.visionStreamRef = Newest(s1)])
  ELSE softFailInteractionMode(s, "screen")

\* reconnectLiveSession resumed by getUserMedia (lines 637-643).
reconnectAudioSettled(s, granted) ==
  IF granted
  THEN LET s1 == Acquire(s, "audio")
       IN reconnectConnect([s1 EXCEPT !.streamRef = Newest(s1)])
  ELSE softFailInteractionMode(s, "mic")

\* The onopen callback connectLive was given by startInteractionMode
\* (lines 792-828) or by reconnectLiveSession (lines 689-697).
onopen(s, origin) ==
  IF origin = "start"
  THEN startFrameInterval(
         ensureAudioCapturePipeline(
           [s EXCEPT !.isLoading = FALSE, !.interactionStatus = "active"]))
  ELSE ensureAudioCapturePipeline(
          [s EXCEPT !.reconnectAttemptsRef = 0,
                    !.interactionStatus = "active",
                    !.interactionError = "",
                    !.isLoading = FALSE])

\* A variant of the reconnect timer's callback that leaves reconnectingRef
\* set.
reconnectTimerFiredKeepsFlag(s) ==
  reconnectLiveSession([s EXCEPT !.reconnectTimerRef = 0])

\* The reconnect timer's callback (lines 725-731).
reconnectTimerFired(s) ==
  reconnectLiveSession([s EXCEPT !.reconnectTimerRef = 0,
                                 !.reconnectingRef = FALSE])

\* The overlay's onRetry (lines 1346-1356).
onRetry(s) ==
  reconnectLiveSession([s EXCEPT !.reconnectAttemptsRef = 0,
                                 !.reconnectingRef = FALSE,
                                 !.reconnectTimerRef = 0])

\* A variant of onLiveMessageRest that leaves the speaking flag set on an
\* interruption.
onLiveMessageRestStillSpeaking(s, msg, hookThrows, eager) ==
  LET s1 == IF msg.interrupted
            THEN stopAllAudio(s) ELSE s
  IN IF msg.inTxt # <<>> /\ hookThrows THEN s1
     ELSE
       LET s2 == IF msg.inTxt # <<>>
                 THEN syncInteractionModeTranscription(
                        [s1 EXCEPT !.isListening = TRUE,
                                   !.currentInputTransRef = @ \o msg.inTxt])
                 ELSE s1
           s3 == IF msg.outTxt # <<>>
                 THEN syncInteractionModeTranscription(
                        [s2 EXCEPT !.currentOutputTransRef = @ \o msg.outTxt])
                 ELSE s2
       IN IF msg.turnComplete
          THEN finalizeTranscriptTurn(s3, FALSE, FALSE, eager)
          ELSE s3

\* ---------------------------------------------------- inbound messages
\* onLiveMessage, lines 572-604, after the audio part: the interruption, the
\* user's fragment (preceded by a call of the hook useContextRecorder, which
\* React rejects with an exception when it is made outside a render, so the
\* handler ends there: hookThrows), the assistant's fragment, turnComplete.
onLiveMessageRest(s, msg, hookThrows, eager) ==
  LET s1 == IF msg.interrupted
            THEN [stopAllAudio(s) EXCEPT !.isSpeaking = FALSE] ELSE s
  IN IF msg.inTxt # <<>> /\ hookThrows THEN s1
     ELSE
       LET s2 == IF msg.inTxt # <<>>
                 THEN syncInteractionModeTranscription(
                        [s1 EXCEPT !.isListening = TRUE,
                                   !.currentInputTransRef = @ \o msg.inTxt])
                 ELSE s1
           s3 == IF msg.outTxt # <<>>
                 THEN syncInteractionModeTranscription(
                        [s2 EXCEPT !.currentOutputTransRef = @ \o msg.outTxt])
                 ELSE s2
       IN IF msg.turnComplete
          THEN finalizeTranscriptTurn(s3, FALSE, FALSE, eager)
          ELSE s3

\* onLiveMessage from its entry (lines 543-557): a message with audio, while
\* an output context exists, raises the cursor to the clock and suspends in
\* decodeAudioData; any other message is handled in one go.
onLiveMessage(s, msg, hookThrows, eager) ==
  IF msg.audio /\ s.outputAudioContextRef
  THEN Suspend([s EXCEPT !.isSpeaking = TRUE,
                         !.nextStartTimeRef = Max(@, s.clock)],
               Cont("decode", Len(s.received), FALSE, FALSE, msg))
  ELSE onLiveMessageRest(s, msg, hookThrows, eager)

\* decodeAudioData (utils/audioUtils) settles in a later task: it resolves
\* with a buffer (TRUE) or rejects (FALSE).
decodeAudioData == BOOLEAN

\* The duration of a decoded audio buffer, in clock ticks.
AudioDuration == 1

\* A source node: the time it was started at (source.start(at)), the time it
\* is heard from (a start time in the past means now), the arrival number of
\* its message, the number of stopAllAudio calls before it was scheduled.
Source(s, n) ==
  [ id |-> s.srcSeq + 1, at |-> s.nextStartTimeRef,
    from |-> Max(s.nextStartTimeRef, s.clock), of |-> n,
    epoch |-> s.resets ]

\* A variant of onLiveMessageDecoded that leaves the cursor where it is.
onLiveMessageDecodedNoAdvance(s, c, ok, hookThrows, eager) ==
  IF ok
  THEN onLiveMessageRest(
         [s EXCEPT !.srcSeq = @ + 1,
                   !.sourcesRef = @ \cup {Source(s, c.n)}],
         c.msg, hookThrows, eager)
  ELSE s

\* onLiveMessage resumed by decodeAudioData (lines 558-570): the buffer is
\* started at the cursor, the cursor advances by its duration, the source is
\* registered; a rejected decode ends the handler (the await is in no try).
onLiveMessageDecoded(s, c, ok, hookThrows, eager) ==
  IF ok
  THEN onLiveMessageRest(
         [s EXCEPT !.srcSeq = @ + 1,
                   !.sourcesRef = @ \cup {Source(s, c.n)},
                   !.nextStartTimeRef = @ + AudioDuration],
         c.msg, hookThrows, eager)
  ELSE s

\* The ended listener of a source (lines 562-565): the source leaves
\* sourcesRef; if the set is empty the speaking flag is cleared.
sourceEnded(s, src) ==
  LET rest == s.sourcesRef \ {src}
  IN [s EXCEPT !.sourcesRef = rest,
               !.stoppedSources = @ \ {src},
               !.endedSources = @ \cup {src},
               !.isSpeaking = IF rest = {} THEN FALSE ELSE @]

\* A variant of saveMessageSettled in which a rejected save of the user's
\* message skips the assistant's.
saveMessageSettledSkipsRest(s, c, ok, eager) ==
  IF c.k = "saveUser" /\ ok
  THEN finalizeDrona(
         IF s.lastUserMsgIdRef = 0
         THEN [s EXCEPT !.lastUserMsgIdRef = c.n] ELSE s,
         c.t, c.s, eager)
  ELSE finalizeEnd(
         IF ok /\ c.k = "saveDrona" /\ s.lastDronaMsgIdRef = 0
         THEN [s EXCEPT !.lastDronaMsgIdRef = c.n] ELSE s,
         c.t, c.s, eager)

\* finalizeTranscriptTurn resumed by saveMessage: after a successful save the
\* message id is stored if the ref is empty; a failed save is only logged.
saveMessageSettled(s, c, ok, eager) ==
  IF c.k = "saveUser"
  THEN finalizeDrona(
         IF ok /\ s.lastUserMsgIdRef = 0
         THEN [s EXCEPT !.lastUserMsgIdRef = c.n] ELSE s,
         c.t, c.s, eager)
  ELSE finalizeEnd(
         IF ok /\ s.lastDronaMsgIdRef = 0
         THEN [s EXCEPT !.lastDronaMsgIdRef = c.n] ELSE s,
         c.t, c.s, eager)

\* The safety timer's callback (lines 961-964).
transcriptTimeout(s, id, eager) ==
  finalizeTranscriptTurn([s EXCEPT !.timers = @ \ {id},
                                   !.timeoutsFired = @ + 1],
                         TRUE, FALSE, eager)

\* refreshSessions resumed by getSessions: the message list is replaced by
\* what the database holds.
refreshSessionsSettled(s) ==
  [s EXCEPT !.uiStreaming = {}, !.uiWarnings = 0]

\* ------------------------------------------------------------- messages
IsFragment(m) == m.inTxt # <<>> \/ m.outTxt # <<>>
IsSignal(m) == m.turnComplete \/ m.interrupted
Count(P(_)) == Cardinality({ i \in DOMAIN received : P(received[i]) })
NFragments == Count(IsFragment)
NSignals == Count(IsSignal)
NAudio == Count(LAMBDA m : m.audio)

\* The text of the next fragment: its arrival number, or a blank.
FragmentTexts == { << NFragments + 1 >>, << Blank >> }

UserFragments == { Msg(FALSE, FALSE, x, <<>>, FALSE) : x \in FragmentTexts }
AssistantFragments ==
  { Msg(FALSE, FALSE, <<>>, x, FALSE) : x \in FragmentTexts }
  \cup { Msg(TRUE, FALSE, <<>>, << NFragments + 1 >>, FALSE) }
Signals == { Msg(FALSE, FALSE, <<>>, <<>>, TRUE),
             Msg(FALSE, TRUE, <<>>, <<>>, FALSE) }

Messages ==
  { m \in UserFragments \cup AssistantFragments \cup Signals :
      /\ IsFragment(m) => NFragments < MaxFragments
      /\ IsSignal(m) => NSignals < MaxSignals
      /\ m.audio => NAudio < MaxAudio }

\* ---------------------------------------------------------------- Init
Init ==
  /\ interactionStatus = "idle"
  /\ interactionError = ""
  /\ isInteractionMode = FALSE
  /\ isLoading = FALSE
  /\ isSpeaking = FALSE
  /\ isListening = FALSE
  /\ isInteractionStreaming = FALSE
  /\ uiStreaming = {}
  /\ uiWarnings = 0
  /\ stopRequestedRef = FALSE
  /\ reconnectingRef = FALSE
  /\ reconnectAttemptsRef = 0
  /\ reconnectTimerRef = 0
  /\ streams = <<>>
  /\ visionStreamRef = 0
  /\ streamRef = 0
  /\ transports = <<>>
  /\ liveSessionRef = 0
  /\ inputAudioContextRef = FALSE
  /\ outputAudioContextRef = FALSE
  /\ openContexts = 0
  /\ mediaSourceRef = 0
  /\ frameIntervalRef = FALSE
  /\ sourcesRef = {}
  /\ nextStartTimeRef = 0
  /\ clock = 0
  /\ srcSeq = 0
  /\ stoppedSources = {}
  /\ endedSources = {}
  /\ resets = 0
  /\ currentInputTransRef = <<>>
  /\ currentOutputTransRef = <<>>
  /\ lastUserMsgIdRef = 0
  /\ lastDronaMsgIdRef = 0
  /\ msgSeq = 0
  /\ transcriptTimeoutRef = 0
  /\ timers = {}
  /\ timerSeq = 0
  /\ firstTranscriptTimeRef = FALSE
  /\ pending = EmptyBag
  /\ saved = <<>>
  /\ received = <<>>
  /\ starts = 0
  /\ stops = <<>>
  /\ retries = 0
  /\ faults = 0
  /\ timeoutsFired = 0
  /\ attached = 0
  /\ frameSeq = 0
  /\ sentFrames = {}
  /\ rejected = <<>>
  /\ intervals = 0
  /\ activeSessionIdRef = FALSE
  /\ connections = <<>>

\* -------------------------------------------------------------- actions
\* A click on the voice button of the input bar.
StartInteractionMode ==
  /\ starts < MaxStarts
  /\ \E eager \in BOOLEAN :
       Commit(startInteractionMode([State EXCEPT !.starts = @ + 1], eager))

\* A click on the close button of the overlay, which is rendered only while
\* isInteractionMode is set.
HardStop ==
  /\ isInteractionMode
  /\ Len(stops) < MaxStops
  /\ \E eager \in BOOLEAN :
       Commit(hardStopInteractionMode(State, eager))

\* A click on Retry, which the overlay shows only in status error.
Retry ==
  /\ isInteractionMode
  /\ interactionStatus = "error"
  /\ retries < MaxRetries
  /\ Commit(onRetry([State EXCEPT !.retries = @ + 1]))

\* The user answers a permission prompt.
Answer(s, granted) == IF granted THEN s ELSE [s EXCEPT !.faults = @ + 1]

StartVideoSettled ==
  \E c \in Pending("startVideo"), granted \in BOOLEAN :
    /\ granted \/ faults < MaxFaults
    /\ Commit(startVideoSettled(Answer(Resume(State, c), granted), granted))

StartAudioSettled ==
  \E c \in Pending("startAudio"), granted \in BOOLEAN :
    /\ granted \/ faults < MaxFaults
    /\ Commit(startAudioSettled(Answer(Resume(State, c), granted), granted))

ReconnectVideoSettled ==
  \E c \in Pending("reconnectVideo"), granted \in BOOLEAN :
    /\ granted \/ faults < MaxFaults
    /\ Commit(reconnectVideoSettled(Answer(Resume(State, c), granted),
                                    granted))

ReconnectAudioSettled ==
  \E c \in Pending("reconnectAudio"), granted \in BOOLEAN :
    /\ granted \/ faults < MaxFaults
    /\ Commit(reconnectAudioSettled(Answer(Resume(State, c), granted),
                                    granted))

\* A device track ends from outside (the user ends the screen share, the
\* microphone is unplugged); the program has no handler for it.
TrackEnded ==
  \E i \in DOMAIN streams :
    /\ streams[i].live
    /\ faults < MaxFaults
    /\ Commit([State EXCEPT !.streams[i].live = FALSE,
                            !.faults = @ + 1])

\* ws.onopen.
TransportOpen ==
  \E i \in DOMAIN transports :
    /\ transports[i].st = "connecting"
    /\ Commit(onopen([State EXCEPT !.transports[i].st = "open"],
                     transports[i].origin))

\* The connection fails: ws.onerror, then ws.onclose, in one task.
TransportFailure ==
  \E i \in DOMAIN transports, j1 \in {0, JitterWindow - 1} :
    /\ transports[i].st \in {"connecting", "open"}
    /\ faults < MaxFaults
    /\ Commit(scheduleReconnect(
                scheduleReconnect([State EXCEPT !.transports[i].st = "closed",
                                                !.faults = @ + 1], j1), j1))

\* ws.onclose: the server closed an open socket, or the closing handshake of
\* a socket the program closed has ended.
TransportClosed ==
  \E i \in DOMAIN transports, j1 \in {0, JitterWindow - 1} :
    /\ \/ transports[i].st = "closing"
       \/ transports[i].st = "open" /\ faults < MaxFaults
    /\ Commit(scheduleReconnect(
                [State EXCEPT !.transports[i].st = "closed",
                              !.faults = IF transports[i].st = "open"
                                         THEN @ + 1 ELSE @], j1))

\* ws.onmessage with a frame that is not JSON: connectLive calls onerror and
\* the socket stays open.
TransportParseError ==
  \E i \in DOMAIN transports, j1 \in {0, JitterWindow - 1} :
    /\ transports[i].st = "open"
    /\ faults < MaxFaults
    /\ Commit(scheduleReconnect([State EXCEPT !.faults = @ + 1], j1))

\* The backoff timer fires.
ReconnectTimerFire ==
  /\ reconnectTimerRef # 0
  /\ Len(transports) < MaxTransports
  /\ Commit(reconnectTimerFired(State))

\* ws.onmessage with a message of the server, on any socket that is open.
LiveMessage(m) ==
  /\ \E i \in DOMAIN transports : transports[i].st = "open"
  /\ \E hookThrows \in BOOLEAN, eager \in BOOLEAN :
       Commit(onLiveMessage([State EXCEPT !.received = Append(@, m)],
                            m, hookThrows, eager))

\* The audio clock of the output context advances.
Tick ==
  /\ clock < MaxClock
  /\ Commit([State EXCEPT !.clock = @ + 1])

\* The ended event of a source: a scheduled source has played to its end, or
\* a source that stopAllAudio stopped reports it.
SourceEnded ==
  \E src \in sourcesRef \cup stoppedSources :
    /\ src \in sourcesRef => clock >= src.from + AudioDuration
    /\ Commit(sourceEnded(State, src))

\* The messages of the playback specification: audio only, interruption only.
AudioMsg == Msg(TRUE, FALSE, <<>>, <<>>, FALSE)
InterruptMsg == Msg(FALSE, TRUE, <<>>, <<>>, FALSE)

PlaybackMessage ==
  \/ NAudio < MaxBuffers /\ LiveMessage(AudioMsg)
  \/ NSignals < MaxSignals /\ LiveMessage(InterruptMsg)

\* The server refuses a connection (ws.onerror, then ws.onclose), as long as
\* fewer than MaxAttempts attempts are counted.
ConnectRefused ==
  \E i \in DOMAIN transports, j1 \in {0, JitterWindow - 1} :
    /\ transports[i].st = "connecting"
    /\ reconnectAttemptsRef < MaxAttempts
    /\ Commit(scheduleReconnect(
                scheduleReconnect([State EXCEPT !.transports[i].st = "closed"],
                                  j1), j1))

\* The backoff timer fires, in a run of refused connections.
BackoffTimerFire ==
  /\ reconnectTimerRef # 0
  /\ Len(transports) <= MaxAttempts
  /\ Commit(reconnectTimerFired(State))

\* The processor delivers a block of microphone samples, which it does while
\* the pipeline is attached and the input context is not closed.
CaptureFrame ==
  /\ mediaSourceRef # 0
  /\ inputAudioContextRef
  /\ frameSeq < MaxFrames
  /\ Commit(onaudioprocess(State))

\* A registered frame interval fires; the video element has a frame or not.
FrameIntervalFire ==
  /\ intervals > 0
  /\ frameSeq < MaxFrames
  /\ \E ready \in BOOLEAN : Commit(frameIntervalFired(State, ready))

\* decodeAudioData resolves or rejects.
DecodeSettled ==
  \E c \in Pending("decode"), ok \in decodeAudioData,
     hookThrows \in BOOLEAN, eager \in BOOLEAN :
    Commit(onLiveMessageDecoded(Resume(State, c), c, ok, hookThrows, eager))

\* saveMessage resolves or rejects.
SaveSettled ==
  \E c \in Pending("saveUser") \cup Pending("saveDrona"),
     ok \in BOOLEAN, eager \in BOOLEAN :
    Commit(saveMessageSettled(Resume(State, c), c, ok, eager))

\* The role a suspended saveMessage call was made for.
RoleOf(c) == IF c.k = "saveUser" THEN "user" ELSE "drona"

\* saveMessage resolves.
SaveResolved ==
  \E c \in Pending("saveUser") \cup Pending("saveDrona"), eager \in BOOLEAN :
    Commit(saveMessageSettled(Resume(State, c), c, TRUE, eager))

\* saveMessage rejects (the request fails); rejected keeps the role and the
\* message id of the call.
SaveRejected ==
  \E c \in Pending("saveUser") \cup Pending("saveDrona"), eager \in BOOLEAN :
    /\ Len(rejected) < MaxRejects
    /\ Commit(saveMessageSettled(
                [Resume(State, c) EXCEPT
                   !.rejected = Append(@, [role |-> RoleOf(c), id |-> c.n])],
                c, FALSE, eager))

\* The 12 s safety timer fires.
TranscriptTimeout ==
  \E id \in timers, eager \in BOOLEAN :
    Commit(transcriptTimeout(State, id, eager))

\* The active chat session is deselected (another project is selected, or
\* the session or its project is deleted): the effect on activeSessionId
\* empties activeSessionIdRef.
SessionDeselected ==
  /\ activeSessionIdRef
  /\ Commit([State EXCEPT !.activeSessionIdRef = FALSE])

\* getSessions resolves: hardStopInteractionMode returns.
RefreshSettled ==
  \E c \in Pending("refreshSessions") :
    Commit(refreshSessionsSettled(Resume(State, c)))

\* The sockets that are connecting or open, the streams with a live track.
Live(i) == transports[i].st \in {"connecting", "open"}
LiveTransports == { i \in DOMAIN transports : Live(i) }
LiveStreams == { i \in DOMAIN streams : streams[i].live }

\* ------------------------------------------------------- specifications
\* The session controller and the reconnect policy: every operation of
\* theirs, any number of sessions up to MaxStarts, no inbound message.
Next ==
  \/ StartInteractionMode
  \/ HardStop
  \/ Retry
  \/ StartVideoSettled
  \/ StartAudioSettled
  \/ ReconnectVideoSettled
  \/ ReconnectAudioSettled
  \/ TrackEnded
  \/ TransportOpen
  \/ TransportFailure
  \/ TransportClosed
  \/ TransportParseError
  \/ ReconnectTimerFire
  \/ RefreshSettled

Spec == Init /\ [][Next]_vars

\* Stop against the reconnect policy and a pending transcript turn: one
\* session, one fragment of the assistant, so that a stop can be suspended
\* in a finalize while the backoff timer is pending.
NextStop ==
  \/ (starts = 0 /\ StartInteractionMode)
  \/ HardStop
  \/ StartVideoSettled
  \/ StartAudioSettled
  \/ ReconnectVideoSettled
  \/ ReconnectAudioSettled
  \/ TrackEnded
  \/ TransportOpen
  \/ TransportFailure
  \/ TransportClosed
  \/ TransportParseError
  \/ ReconnectTimerFire
  \/ (received = <<>> /\ LiveMessage(Msg(FALSE, FALSE, <<>>, <<1>>, FALSE)))
  \/ SaveSettled
  \/ TranscriptTimeout
  \/ RefreshSettled

SpecStop == Init /\ [][NextStop]_vars

\* The transcript aggregator: one session, every kind of inbound message,
\* the stop of the session once its transport is open.
NextTranscript ==
  \/ (starts = 0 /\ StartInteractionMode)
  \/ (interactionStatus = "active" /\ HardStop)
  \/ StartVideoSettled
  \/ StartAudioSettled
  \/ TransportOpen
  \/ \E m \in Messages : LiveMessage(m)
  \/ DecodeSettled
  \/ SaveSettled
  \/ TranscriptTimeout
  \/ RefreshSettled

SpecTranscript == Init /\ [][NextTranscript]_vars

\* The playback scheduler: one session, audio and interruption messages,
\* the audio clock, the ended events of the sources.
NextPlayback ==
  \/ (starts = 0 /\ StartInteractionMode)
  \/ (interactionStatus = "active" /\ HardStop)
  \/ StartVideoSettled
  \/ StartAudioSettled
  \/ TransportOpen
  \/ PlaybackMessage
  \/ DecodeSettled
  \/ SourceEnded
  \/ Tick
  \/ RefreshSettled

SpecPlayback == Init /\ [][NextPlayback]_vars

\* The backoff of the reconnect policy: one session whose server refuses up
\* to MaxAttempts connections in a row.
NextBackoff ==
  \/ (starts = 0 /\ StartInteractionMode)
  \/ HardStop
  \/ StartVideoSettled
  \/ StartAudioSettled
  \/ TransportOpen
  \/ TransportClosed
  \/ ConnectRefused
  \/ BackoffTimerFire
  \/ RefreshSettled

SpecBackoff == Init /\ [][NextBackoff]_vars

\* A click on the close button of an overlay that came up again after the
\* stops of HardStop.
HardStopAgain ==
  /\ isInteractionMode
  /\ Len(stops) >= MaxStops
  /\ Len(stops) <= MaxStops + 1
  /\ \E eager \in BOOLEAN :
       Commit(hardStopInteractionMode(State, eager))

\* The handler that a rejected permission request resumes.
promptRejected(s, c) ==
  CASE c.k = "startVideo" -> startVideoSettled(s, FALSE)
    [] c.k = "startAudio" -> startAudioSettled(s, FALSE)
    [] c.k = "reconnectVideo" -> reconnectVideoSettled(s, FALSE)
    [] c.k = "reconnectAudio" -> reconnectAudioSettled(s, FALSE)

\* The user dismisses a permission prompt that is still open after a stop.
PromptDismissedAfterStop ==
  /\ stopRequestedRef
  /\ \E c \in Pending("startVideo") \cup Pending("startAudio")
              \cup Pending("reconnectVideo") \cup Pending("reconnectAudio") :
       Commit(promptRejected(Resume(State, c), c))

\* Stop after stop: the specification of stop, the prompts that outlive a
\* stop, and a further stop whenever the overlay is up once more.
NextStopAgain ==
  \/ NextStop
  \/ PromptDismissedAfterStop
  \/ HardStopAgain

SpecStopAgain == Init /\ [][NextStopAgain]_vars

\* The capture pipeline against the transport: one session, its transport
\* opening, failing and being replaced by the reconnects of the policy, the
\* frames of the microphone.
NextCapture ==
  \/ (starts = 0 /\ StartInteractionMode)
  \/ HardStop
  \/ StartVideoSettled
  \/ StartAudioSettled
  \/ TransportOpen
  \/ TransportFailure
  \/ TransportClosed
  \/ ReconnectTimerFire
  \/ TrackEnded
  \/ ReconnectVideoSettled
  \/ ReconnectAudioSettled
  \/ CaptureFrame
  \/ RefreshSettled

SpecCapture == Init /\ [][NextCapture]_vars

\* The messages of the persistence specification: a fragment of the user, a
\* fragment of the assistant, turnComplete.
PersistMessages ==
  { m \in { Msg(FALSE, FALSE, << NFragments + 1 >>, <<>>, FALSE),
            Msg(FALSE, FALSE, <<>>, << NFragments + 1 >>, FALSE),
            Msg(FALSE, FALSE, <<>>, <<>>, TRUE) } :
      /\ IsFragment(m) => NFragments < MaxFragments
      /\ IsSignal(m) => NSignals < MaxSignals }

\* Persistence failures: one session, fragments and turnComplete, the safety
\* timer, saveMessage calls that resolve or are rejected.
NextPersist ==
  \/ (starts = 0 /\ StartInteractionMode)
  \/ StartVideoSettled
  \/ StartAudioSettled
  \/ TransportOpen
  \/ \E m \in PersistMessages : LiveMessage(m)
  \/ SaveResolved
  \/ SaveRejected
  \/ TranscriptTimeout

SpecPersist == Init /\ [][NextPersist]_vars

\* The messages of the session specification: those of the persistence
\* specification and a fragment of the user that is a blank.
SessionMessages ==
  PersistMessages \cup
    { m \in { Msg(FALSE, FALSE, << Blank >>, <<>>, FALSE) } :
        NFragments < MaxFragments }

\* Persistence against the chat session: one session, fragments (one of them
\* blank) and turnComplete, the safety timer, saveMessage calls that
\* resolve, the deselection of the chat session.
NextSession ==
  \/ (starts = 0 /\ StartInteractionMode)
  \/ StartVideoSettled
  \/ StartAudioSettled
  \/ TransportOpen
  \/ \E m \in SessionMessages : LiveMessage(m)
  \/ SaveResolved
  \/ TranscriptTimeout
  \/ SessionDeselected

SpecSession == Init /\ [][NextSession]_vars

\* ------------------------------------------------- the server's live proxy
\* ws.close() of the server on the client socket of connection i: an open
\* socket starts its closing handshake, any other is left as it is.
wsClose(s, i) ==
  IF s.connections[i].ws = "open"
  THEN [s EXCEPT !.connections[i].ws = "closing"] ELSE s

\* The listeners ws.on("close") and ws.on("error") of connection i: both
\* call session.close(), which starts the closing of an open session.  They
\* exist only once the connect has resolved.
wsOnClose(s, i) ==
  IF s.connections[i].listening /\ s.connections[i].session = "open"
  THEN [s EXCEPT !.connections[i].session = "closing"] ELSE s

\* A client connects to the WebSocket server: the connection handler creates
\* the upstream client and suspends in client.live.connect.
ClientConnects ==
  /\ Len(connections) < MaxConnections
  /\ Commit([State EXCEPT !.connections =
               Append(@, [ ws |-> "open", session |-> "connecting",
                           listening |-> FALSE ])])

\* client.live.connect resolves: the handler resumes and registers the
\* listeners of the client socket.
ConnectResolved(i) ==
  /\ i \in DOMAIN connections
  /\ connections[i].session = "connecting"
  /\ Commit([State EXCEPT !.connections[i].session = "open",
                          !.connections[i].listening = TRUE])

\* client.live.connect rejects: the handler closes the client socket and
\* returns.
ConnectRejected(i) ==
  /\ i \in DOMAIN connections
  /\ connections[i].session = "connecting"
  /\ Commit(wsClose([State EXCEPT !.connections[i].session = "failed"], i))

\* The client closes its socket, or the socket errors: the close (or error)
\* event is emitted on the server's socket and runs the listeners that are
\* registered at that moment.
ClientSocketClosed(i) ==
  /\ i \in DOMAIN connections
  /\ connections[i].ws = "open"
  /\ Commit(wsOnClose([State EXCEPT !.connections[i].ws = "closed"], i))

\* The closing handshake the server started on the client socket is over: the
\* close event is emitted.
ClientSocketCloseDone(i) ==
  /\ i \in DOMAIN connections
  /\ connections[i].ws = "closing"
  /\ Commit(wsOnClose([State EXCEPT !.connections[i].ws = "closed"], i))

\* The upstream session closes or errors by itself: its onclose (or onerror)
\* callback closes the client socket.
UpstreamDropped(i) ==
  /\ i \in DOMAIN connections
  /\ connections[i].session = "open"
  /\ Commit(wsClose([State EXCEPT !.connections[i].session = "closed"], i))

\* The closing of the upstream session that session.close() started is over:
\* the onclose callback closes the client socket.
UpstreamCloseDone(i) ==
  /\ i \in DOMAIN connections
  /\ connections[i].session = "closing"
  /\ Commit(wsClose([State EXCEPT !.connections[i].session = "closed"], i))

\* The live proxy of the server: clients connect, the upstream connect
\* settles, either side closes.
NextProxy ==
  \/ ClientConnects
  \/ \E i \in 1 .. MaxConnections : ConnectResolved(i)
  \/ \E i \in 1 .. MaxConnections : ConnectRejected(i)
  \/ \E i \in 1 .. MaxConnections : ClientSocketClosed(i)
  \/ \E i \in 1 .. MaxConnections : ClientSocketCloseDone(i)
  \/ \E i \in 1 .. MaxConnections : UpstreamDropped(i)
  \/ \E i \in 1 .. MaxConnections : UpstreamCloseDone(i)

\* What the runtime and the network do on their own: a pending connect
\* settles, a closing handshake and a closing session come to their end.
\* That a client closes or the upstream drops is up to them.
FairProxy ==
  \A i \in 1 .. MaxConnections :
    /\ WF_vars(ConnectResolved(i) \/ ConnectRejected(i))
    /\ WF_vars(ClientSocketCloseDone(i))
    /\ WF_vars(UpstreamCloseDone(i))

SpecProxy == Init /\ [][NextProxy]_vars /\ FairProxy

\* The frame interval against the transport: one session, its transport
\* opening, failing and being replaced by reconnects and a retry, the ticks
\* of the frame interval.
NextFrames ==
  \/ (starts = 0 /\ StartInteractionMode)
  \/ HardStop
  \/ Retry
  \/ StartVideoSettled
  \/ StartAudioSettled
  \/ ReconnectVideoSettled
  \/ ReconnectAudioSettled
  \/ TrackEnded
  \/ TransportOpen
  \/ TransportFailure
  \/ TransportClosed
  \/ ReconnectTimerFire
  \/ FrameIntervalFire
  \/ RefreshSettled

SpecFrames == Init /\ [][NextFrames]_vars

\* ================================================================ claims

\* hardStopInteractionMode is suspended in its await of finalizeTranscriptTurn.
StopSuspended == \E c \in BagToSet(pending) : c.s

\* The characters of a text that are fragments (not blanks).
Letters(txt) == { txt[i] : i \in DOMAIN txt } \ {Blank}

Persisted(role) == { i \in DOMAIN saved : saved[i].role = role }

\* ---------------------------------------------------------------- C1
\* C1: the persistence side effect runs once per turn: no text of a turn is
\* handed to saveMessage twice for the same role, whatever the interleaving
\* of turnComplete, the safety timer, stop and a finalize suspended in
\* saveMessage.  (A fragment is the number of its arrival, so two saved
\* messages of one role that share a fragment persist the same turn twice.)
C1_PersistedOncePerTurn ==
  \A i, j \in DOMAIN saved :
    (i < j /\ saved[i].role = saved[j].role)
      => Letters(saved[i].content) \cap Letters(saved[j].content) = {}

\* ---------------------------------------------------------------- C2
\* The reconnect attempts in flight: a pending backoff timer, a
\* reconnectLiveSession suspended in a permission request, a socket that
\* reconnectLiveSession opened and that is still connecting.
ReconnectsInFlight ==
  (IF reconnectTimerRef # 0 THEN 1 ELSE 0)
  + NPending("reconnectVideo") + NPending("reconnectAudio")
  + Cardinality({ i \in DOMAIN transports :
                    /\ transports[i].st = "connecting"
                    /\ transports[i].origin = "reconnect" })

\* C2: at any instant at most one reconnect attempt is in flight, scheduled
\* or executing.
C2_OneReconnectInFlight == ReconnectsInFlight <= 1

\* ---------------------------------------------------------------- C3
\* C3: in every reachable state at most one transport is connecting or open.
C3_AtMostOneTransport == Cardinality(LiveTransports) <= 1

\* ---------------------------------------------------------------- C4
Released ==
  /\ LiveStreams = {}
  /\ LiveTransports = {}
  /\ reconnectTimerRef = 0
  /\ timers = {}
  /\ ~frameIntervalRef

\* C4: when hardStopInteractionMode returns (its last await, of
\* refreshSessions, resumes), every device track acquired so far is stopped,
\* no transport is connecting or open and no timer is pending.
C4_StopReleasesEverything ==
  [][ NPending("refreshSessions")' < NPending("refreshSessions")
        => Released' ]_vars

\* ---------------------------------------------------------------- C5
\* C5: once a stop that was called in status reconnecting, with the backoff
\* timer pending, is past its finalize, the timer is cancelled, no transport
\* has been opened since the call, none is connecting or open, and every
\* device is released.
C5_StopWhileReconnecting ==
  ( /\ stops # <<>>
    /\ stops[1].status = "reconnecting"
    /\ stops[1].timer
    /\ ~StopSuspended )
  => ( /\ reconnectTimerRef = 0
       /\ Len(transports) = stops[1].sockets
       /\ LiveTransports = {}
       /\ LiveStreams = {} )

\* ---------------------------------------------------------------- C6
\* C6: after a stop (and until the next start) a handler that was suspended
\* in a permission request or in the transport open acquires nothing when it
\* resumes: the status stays idle and no device, transport, timer, capture
\* pipeline or audio context is held.
C6_StopSafeMidOperation ==
  (stopRequestedRef /\ ~StopSuspended)
  => ( /\ interactionStatus = "idle"
       /\ LiveStreams = {}
       /\ LiveTransports = {}
       /\ reconnectTimerRef = 0
       /\ ~frameIntervalRef
       /\ mediaSourceRef = 0
       /\ openContexts = 0 )

\* ---------------------------------------------------------------- C7
\* C7: no fragment is lost: every fragment of the assistant that arrived (in
\* a message without audio) is in the assistant's buffer or in the content of
\* a message handed to saveMessage for the assistant.
C7_NoFragmentLost ==
  \A i \in DOMAIN received :
    LET m == received[i]
    IN (~m.audio /\ m.outTxt # <<>>)
         => Letters(m.outTxt) \subseteq
              ( Letters(currentOutputTransRef)
                \cup UNION { Letters(saved[j].content) :
                               j \in Persisted("drona") } )

\* ---------------------------------------------------------------- C8
Ascending(txt) ==
  \A i, j \in DOMAIN txt :
    (i < j /\ txt[i] # Blank /\ txt[j] # Blank) => txt[i] < txt[j]

\* C8: the fragments of a role are in its buffer in the order of arrival.
C8_FragmentsInArrivalOrder ==
  /\ Ascending(currentInputTransRef)
  /\ Ascending(currentOutputTransRef)

\* ---------------------------------------------------------------- C9
RECURSIVE Concat(_)
Concat(ms) == IF ms = <<>> THEN <<>> ELSE Head(ms).inTxt \o Concat(Tail(ms))

UserOnly(m) == m = Msg(FALSE, FALSE, m.inTxt, <<>>, FALSE) /\ m.inTxt # <<>>

\* User fragments f1..fn, not all blank, then turnComplete, every handler
\* run to its end; no timeout, no stop.
C9_Scenario ==
  /\ Len(received) >= 2
  /\ \A i \in 1 .. Len(received) - 1 : UserOnly(received[i])
  /\ received[Len(received)] = Msg(FALSE, FALSE, <<>>, <<>>, TRUE)
  /\ Trim(Concat(SubSeq(received, 1, Len(received) - 1))) # <<>>
  /\ pending = EmptyBag
  /\ timeoutsFired = 0
  /\ stops = <<>>

\* C9: then exactly one message is persisted, the user's, with the fragments
\* concatenated in arrival order and trimmed; both buffers, both ids and
\* firstTranscriptTimeRef are cleared and no safety timer is pending.
C9_CompletionPersistsConcatenation ==
  C9_Scenario
  => ( /\ Len(saved) = 1
       /\ saved[1].role = "user"
       /\ saved[1].content
            = Trim(Concat(SubSeq(received, 1, Len(received) - 1)))
       /\ currentInputTransRef = <<>>
       /\ currentOutputTransRef = <<>>
       /\ lastUserMsgIdRef = 0
       /\ lastDronaMsgIdRef = 0
       /\ ~firstTranscriptTimeRef
       /\ transcriptTimeoutRef = 0
       /\ timers = {} )

\* --------------------------------------------------------------- C10
\* C10 as stated: the content persisted by a finalize that the safety timer
\* triggered includes the timeout warning.
C10_PersistedContentHasWarning ==
  \A i \in DOMAIN saved :
    saved[i].timeout => Warning \in Letters(saved[i].content)

\* C10, amended: a finalize triggered by the timer persists the accumulated
\* text, trimmed, and nothing else: no persisted content holds the warning.
\* The warning is a message of its own in the in-memory message list, pushed
\* only by a finalize that the timer triggered.
C10_WarningOnlyInMessageList ==
  /\ \A i \in DOMAIN saved :
       /\ Warning \notin Letters(saved[i].content)
       /\ saved[i].content # <<>>
       /\ saved[i].content = Trim(saved[i].content)
       /\ Letters(saved[i].content) \subseteq 1 .. NFragments
       /\ saved[i].timeout => timeoutsFired > 0
  /\ uiWarnings <= timeoutsFired

\* A timer-triggered finalize has persisted the turn and pushed the warning.
C10_Witness ==
  /\ \E i \in DOMAIN saved : saved[i].timeout
  /\ uiWarnings = 1
  /\ pending = EmptyBag

\* --------------------------------------------------------------- C11
\* The un-jittered delay of attempt n: 250, 500, 1000, 2000, 4000, 4000, ...
BackoffTable(n) == IF n <= 5 THEN << 250, 500, 1000, 2000, 4000 >>[n] ELSE 4000

\* C11: whenever the backoff timer is armed, for attempt n >= 1, its delay is
\* the n-th entry of 250, 500, 1000, 2000, 4000, 4000, ... plus a jitter in
\* [0, 250].
C11_BackoffDelay ==
  [][ (reconnectTimerRef' # 0 /\ reconnectTimerRef' # reconnectTimerRef)
        => LET n == reconnectAttemptsRef'
           IN /\ n >= 1
              /\ reconnectTimerRef' - BackoffTable(n) \in 0 .. JitterWindow
              /\ BackoffTable(n) = Min(MaxDelay, BaseDelay * Pow2(n - 1)) ]_vars

\* The timer is armed for the sixth attempt in a row, at the cap.
C11_Witness ==
  /\ reconnectAttemptsRef >= 6
  /\ reconnectTimerRef >= MaxDelay
  /\ interactionStatus = "reconnecting"

\* --------------------------------------------------------------- C12
\* The close event of transport i is delivered in this step.
CloseEvent(i) == transports[i].st # "closed" /\ transports'[i].st = "closed"

\* The backoff timer fires in this step (no click cancels it).
TimerFires ==
  /\ reconnectTimerRef # 0
  /\ reconnectTimerRef' = 0
  /\ starts' = starts /\ stops' = stops /\ retries' = retries
  /\ pending' = pending

\* C12: when the current transport closes in status active, stop not
\* requested, the status becomes reconnecting with attempt counter 1 and a
\* delay in [250, 500]; when that timer fires (the devices still live) a new
\* transport is constructed, connecting, and the status is connecting.
C12_CloseWhileActive ==
  [][ /\ ( /\ liveSessionRef # 0
           /\ transports[liveSessionRef].st = "open"
           /\ CloseEvent(liveSessionRef)
           /\ interactionStatus = "active"
           /\ ~stopRequestedRef )
         => ( /\ interactionStatus' = "reconnecting"
              /\ reconnectAttemptsRef' = 1
              /\ reconnectTimerRef' \in 250 .. 500 )
      /\ ( /\ TimerFires
           /\ interactionStatus = "reconnecting"
           /\ reconnectAttemptsRef = 1
           /\ ~stopRequestedRef
           /\ hasLiveVideo(State) /\ hasLiveAudio(State) )
         => ( /\ Len(transports') = Len(transports) + 1
              /\ transports'[Len(transports')].st = "connecting"
              /\ liveSessionRef' = Len(transports')
              /\ interactionStatus' = "connecting" ) ]_vars

\* --------------------------------------------------------------- C13
\* Every source scheduled so far: active, stopped, ended.
AllSources == sourcesRef \cup stoppedSources \cup endedSources

InterruptionProcessed == resets' > resets /\ stops' = stops

C16_NoStaleAudio ==
  \A src \in sourcesRef :
    \A i \in DOMAIN received :
      (received[i].interrupted /\ ~received[i].audio) => src.of > i

\* --------------------------------------------------------------- C17
\* C17: the status becomes idle only in a step that calls stop; after a stop
\* it stays idle, the overlay inactive, until the next click on start.
C17_IdleOnlyByStop ==
  [][ /\ (interactionStatus # "idle" /\ interactionStatus' = "idle")
           => Len(stops') > Len(stops)
      /\ (interactionStatus = "idle" /\ stops # <<>> /\ starts' = starts)
           => (interactionStatus' = "idle" /\ ~isInteractionMode') ]_vars

\* --------------------------------------------------------------- C18
AllowedTransitions ==
  { << "idle", "requesting_permissions" >>,
    << "requesting_permissions", "connecting" >>,
    << "connecting", "active" >>,
    << "active", "reconnecting" >>,
    << "connecting", "reconnecting" >>,
    << "reconnecting", "connecting" >>,
    << "error", "connecting" >> }
  \cup { << x, "error" >> : x \in Statuses }
  \cup { << x, "idle" >> : x \in Statuses }

\* C18: every change of the status is one of the listed transitions.
C18_StatusTransitions ==
  [][ interactionStatus' # interactionStatus
        => << interactionStatus, interactionStatus' >>
             \in AllowedTransitions ]_vars

\* --------------------------------------------------------------- C19
\* C19: a close event of a transport delivered in a status other than active
\* or connecting, or after stop was requested, changes neither the attempt
\* counter, nor the status, nor the reconnect timer.
C19_ReconnectOnlyWhenConnected ==
  [][ ( /\ \E i \in DOMAIN transports : CloseEvent(i)
        /\ \/ interactionStatus \notin {"active", "connecting"}
           \/ stopRequestedRef )
      => ( /\ reconnectAttemptsRef' = reconnectAttemptsRef
           /\ interactionStatus' = interactionStatus
           /\ reconnectTimerRef' = reconnectTimerRef ) ]_vars

\* --------------------------------------------------------------- C20
\* Transport i was closed by reconnectLiveSession and replaced.
Superseded(i) ==
  /\ transports[i].st = "closing"
  /\ i # liveSessionRef
  /\ \E j \in DOMAIN transports : j > i /\ transports[j].origin = "reconnect"

\* C20: the close event of a superseded transport changes neither the
\* status, nor the attempt counter, nor the reconnect timer.
C20_StaleTransportIgnored ==
  [][ \A i \in DOMAIN transports :
        (Superseded(i) /\ CloseEvent(i))
          => ( /\ interactionStatus' = interactionStatus
               /\ reconnectAttemptsRef' = reconnectAttemptsRef
               /\ reconnectTimerRef' = reconnectTimerRef ) ]_vars

\* --------------------------------------------------------------- C21
\* startInteractionMode is called in this step while the overlay is up.
StartWhileActive == starts' = starts + 1 /\ isInteractionMode

\* This step requests no device and opens no transport.
AcquiresNothing ==
  /\ Len(streams') = Len(streams)
  /\ Len(transports') = Len(transports)
  /\ NPending("startVideo")' = NPending("startVideo")
  /\ NPending("startAudio")' = NPending("startAudio")

MicDeniedInStart ==
  /\ NPending("startAudio")' = NPending("startAudio") - 1
  /\ faults' = faults + 1

\* Retry is clicked in this step on the error of a denied microphone while
\* the screen stream is held and live and no microphone stream is.
RetryAfterMicDenial ==
  /\ retries' = retries + 1
  /\ interactionError = "mic"
  /\ hasLiveVideo(State)
  /\ ~hasLiveAudio(State)

\* C22: a microphone denial in start gives status error with the microphone
\* message, keeps the overlay up, keeps the screen stream as it is and opens
\* no transport; the retry that follows requests the microphone and neither
\* requests nor acquires a screen stream.
C22_MicDenied ==
  [][ /\ MicDeniedInStart
         => ( /\ interactionStatus' = "error"
              /\ interactionError' = "mic"
              /\ isInteractionMode'
              /\ streams' = streams
              /\ visionStreamRef' = visionStreamRef
              /\ transports' = transports )
      /\ RetryAfterMicDenial
         => ( /\ NPending("reconnectAudio")' = NPending("reconnectAudio") + 1
              /\ NPending("reconnectVideo")' = NPending("reconnectVideo")
              /\ streams' = streams
              /\ visionStreamRef' = visionStreamRef ) ]_vars

\* --------------------------------------------------------------- C23
\* Retry is clicked in this step.
RetryClicked == retries' = retries + 1

\* C23: a retry happens only in status error; it leaves the error status,
\* sets the attempt counter to 0, cancels the reconnect timer and goes to
\* connecting with a new transport when both devices are live, and to the
\* request of the missing device otherwise; a device whose track is live is
\* neither requested nor replaced.
C23_RetryFromError ==
  [][ RetryClicked
        => ( /\ interactionStatus = "error"
             /\ interactionStatus' \in {"connecting", "requesting_permissions"}
             /\ reconnectAttemptsRef' = 0
             /\ reconnectTimerRef' = 0
             /\ ~reconnectingRef'
             /\ streams' = streams
             /\ hasLiveVideo(State)
                  => /\ NPending("reconnectVideo")' = NPending("reconnectVideo")
                     /\ visionStreamRef' = visionStreamRef
             /\ hasLiveAudio(State)
                  => /\ NPending("reconnectAudio")' = NPending("reconnectAudio")
                     /\ streamRef' = streamRef
             /\ (hasLiveVideo(State) /\ hasLiveAudio(State))
                  => /\ interactionStatus' = "connecting"
                     /\ Len(transports') = Len(transports) + 1
                     /\ liveSessionRef' = Len(transports')
                     /\ transports'[liveSessionRef'].st = "connecting" ) ]_vars

\* --------------------------------------------------------------- C24
\* scheduleReconnect accepts a trigger in this step: it sets reconnectingRef.
TriggerAccepted == ~reconnectingRef /\ reconnectingRef'

\* The open event of a transport is delivered in this step.
TransportOpened ==
  \E i \in DOMAIN transports :
    transports[i].st = "connecting" /\ transports'[i].st = "open"

\* C24: the attempt counter goes up by exactly 1 in a step that accepts a
\* reconnect trigger and in no other step, and it is 0 after every step that
\* delivers the open event of a transport.
C24_AttemptCounter ==
  [][ /\ TriggerAccepted => reconnectAttemptsRef' = reconnectAttemptsRef + 1
      /\ reconnectAttemptsRef' > reconnectAttemptsRef => TriggerAccepted
      /\ TransportOpened => reconnectAttemptsRef' = 0 ]_vars

\* --------------------------------------------------------------- C25
\* hardStopInteractionMode is called in this step and it is not the first
\* call.
StopCalledAgain == Len(stops) >= 1 /\ Len(stops') = Len(stops) + 1

\* This step hands saveMessage a text of a role that was handed to it before.
PersistsAgain ==
  \E i \in (Len(saved) + 1)..Len(saved'), j \in 1..Len(saved) :
    /\ saved'[i].role = saved[j].role
    /\ saved'[i].content = saved[j].content

\* C25: a call of stop after a first call leaves the status idle, the stop
\* flag set and no playing source, persists no text that was persisted
\* before and, unless it has a pending turn to finalize first, leaves no
\* device, no transport and no timer.
C25_StopIdempotent ==
  [][ StopCalledAgain
        => ( /\ stopRequestedRef'
             /\ interactionStatus' = "idle"
             /\ ~isInteractionMode'
             /\ sourcesRef' = {}
             /\ ~PersistsAgain
             /\ ~isInteractionStreaming
                  => /\ streamRef' = 0 /\ visionStreamRef' = 0
                     /\ LiveStreams' = {}
                     /\ liveSessionRef' = 0
                     /\ LiveTransports' = {}
                     /\ reconnectTimerRef' = 0
                     /\ transcriptTimeoutRef' = 0
                     /\ timers' = {}
                     /\ ~frameIntervalRef' ) ]_vars

\* --------------------------------------------------------------- C26
\* The first call of hardStopInteractionMode has returned.
StopReturned ==
  /\ Len(stops) >= 1
  /\ ~StopSuspended
  /\ NPending("refreshSessions") = 0

\* The saved messages of a role that hold a fragment of a text.
Holders(role, txt) ==
  { i \in Persisted(role) : Letters(saved[i].content) \cap Letters(txt) # {} }

\* The text a buffer held when stop was called is in exactly one saved
\* message of its role, whole.
PersistedOnceWhole(role, txt) ==
  Letters(txt) # {}
    => \E i \in Persisted(role) :
         /\ Holders(role, txt) = {i}
         /\ Letters(txt) \subseteq Letters(saved[i].content)

\* C26: when a stop that found a pending turn (text in a buffer, no
\* finalize under way) has returned, the text of each buffer has been
\* persisted, and persisted once, whatever arrived or fired during the stop.
C26_StopPersistsPendingTurnOnce ==
  (StopReturned /\ ~stops[1].saving)
    => /\ PersistedOnceWhole("user", stops[1].input)
       /\ PersistedOnceWhole("drona", stops[1].output)

\* --------------------------------------------------------------- C27
\* The capture processor delivers a frame in this step.
FrameCaptured == frameSeq' = frameSeq + 1

\* The transport of liveSessionRef is open.
TransportIsOpen == liveSessionRef # 0 /\ transports[liveSessionRef].st = "open"

\* C27: a captured frame is sent at the moment of its capture to the current
\* transport if that transport is open, and is dropped otherwise; no step
\* other than its capture sends a frame, so none is sent later.
C27_FramesOnlyToOpenTransport ==
  [][ /\ FrameCaptured
         => sentFrames' =
              sentFrames \cup
                (IF TransportIsOpen
                 THEN {[frame |-> frameSeq', via |-> liveSessionRef]}
                 ELSE {})
      /\ ~FrameCaptured => sentFrames' = sentFrames ]_vars

\* The first frame was captured while the transport was not open and was
\* dropped; the second went to the transport that replaced it, which did not
\* get the first.
C27_Witness ==
  /\ frameSeq = 2
  /\ Len(transports) = 2
  /\ transports[2].st = "open"
  /\ sentFrames = {[frame |-> 2, via |-> 2]}

\* --------------------------------------------------------------- C28
\* This step calls no stop and starts with a capture pipeline attached.
PipelineRunning == Len(stops') = Len(stops) /\ mediaSourceRef # 0

\* C28: as long as no stop was called at most one capture pipeline is
\* attached, and a step that starts with a pipeline running and calls no
\* stop leaves the pipeline and the number of attached pipelines as they are,
\* whatever it opens, reconnects or retries.
C28_OneCapturePipeline ==
  /\ [](stops = <<>> => attached <= 1)
  /\ [][ PipelineRunning
           => /\ mediaSourceRef' = mediaSourceRef
              /\ attached' = attached ]_vars

\* The pipeline that the first open attached is the only one after a
\* reconnect has connected and opened a second transport.
C28_Witness ==
  /\ stops = <<>>
  /\ attached = 1
  /\ Len(transports) = 2
  /\ transports[1].origin = "start"
  /\ transports[1].st = "closed"
  /\ transports[2].origin = "reconnect"
  /\ transports[2].st = "open"

\* --------------------------------------------------------------- C29
\* A saveMessage call is rejected in this step.
SaveFailedNow == Len(rejected') = Len(rejected) + 1

\* The role of the call that is rejected in this step.
FailedRole == rejected'[Len(rejected')].role

\* The messages this step hands to saveMessage.
NewlySaved == { saved'[i] : i \in (Len(saved) + 1)..Len(saved') }

\* The finalize that was suspended in the rejected call ends in this step.
FinalizeEndsNow ==
  FailedRole = "drona" \/ Trim(currentOutputTransRef) = <<>>

\* C29: the step in which a saveMessage call of a finalize is rejected
\* leaves the status, the transports and the reconnect policy as they are,
\* calls saveMessage for that role no more, goes on to save the assistant's
\* text when the rejected call was the user's, and ends the finalize with the
\* buffers, the ids and firstTranscriptTimeRef cleared; the safety timer,
\* which the finalize cancelled at its entry, is neither armed nor cancelled.
C29_SaveFailureContained ==
  [][ SaveFailedNow
        => ( /\ interactionStatus' = interactionStatus
             /\ isInteractionMode' = isInteractionMode
             /\ transports' = transports
             /\ liveSessionRef' = liveSessionRef
             /\ reconnectTimerRef' = reconnectTimerRef
             /\ reconnectingRef' = reconnectingRef
             /\ reconnectAttemptsRef' = reconnectAttemptsRef
             /\ transcriptTimeoutRef' = transcriptTimeoutRef
             /\ timers' = timers
             /\ \A m \in NewlySaved : m.role # FailedRole
             /\ (FailedRole = "user" /\ Trim(currentOutputTransRef) # <<>>)
                  => /\ Len(saved') = Len(saved) + 1
                     /\ saved'[Len(saved')].role = "drona"
                     /\ saved'[Len(saved')].content
                          = Trim(currentOutputTransRef)
                     /\ NPending("saveDrona")' = NPending("saveDrona") + 1
             /\ FinalizeEndsNow
                  => /\ saved' = saved
                     /\ currentInputTransRef' = <<>>
                     /\ currentOutputTransRef' = <<>>
                     /\ lastUserMsgIdRef' = 0
                     /\ lastDronaMsgIdRef' = 0
                     /\ ~firstTranscriptTimeRef'
                     /\ ~isInteractionStreaming' ) ]_vars


\* The save of the user's text was rejected; the assistant's text of the
\* same turn was handed to saveMessage after it, the finalize has ended with
\* the buffers cleared, and the session is active on its open transport.
C29_Witness ==
  /\ Len(rejected) = 1
  /\ rejected[1].role = "user"
  /\ Len(saved) = 2
  /\ saved[1].role = "user"
  /\ saved[1].id = rejected[1].id
  /\ saved[2].role = "drona"
  /\ NPending("saveUser") + NPending("saveDrona") = 0
  /\ currentInputTransRef = <<>>
  /\ currentOutputTransRef = <<>>
  /\ ~isInteractionStreaming
  /\ interactionStatus = "active"
  /\ LiveTransports = {1}

\* --------------------------------------------------------------- C30
\* The decodeAudioData call of the handler c settles in this step.
DecodeSettledNow(c) == CopiesIn(c, pending') = CopiesIn(c, pending) - 1

\* The fragments that are in the assistant's buffer or in a saved message
\* after this step.
KeptAfter ==
  Letters(currentOutputTransRef')
    \cup UNION { Letters(saved'[i].content) : i \in DOMAIN saved' }

\* C30: the step in which the decoding of a message's audio settles, with a
\* buffer or with a failure, leaves the status as it is and goes on to
\* process the transcript fragment the same message carries.
C30_DecodeFailureSkipped ==
  [][ \A c \in Pending("decode") :
        DecodeSettledNow(c)
          => /\ interactionStatus' = interactionStatus
             /\ Letters(c.msg.outTxt) \subseteq KeptAfter ]_vars

\* --------------------------------------------------------------- C31
\* A decoded buffer is given to a new source and started in this step.
SourceScheduled == srcSeq' = srcSeq + 1

\* The source that is started in this step.
NewSource == CHOOSE src \in AllSources' : src.id = srcSeq'

\* C31: a buffer is started at max(nextStartTime, clock) taken at the moment
\* it is started, so never at a time before the clock of that moment, and
\* nextStartTime is then its start time plus its duration.
C31_ScheduledAtMaxOfCursorAndClock ==
  [][ SourceScheduled
        => ( /\ NewSource.at = Max(nextStartTimeRef, clock)
             /\ NewSource.at >= clock
             /\ nextStartTimeRef' = NewSource.at + AudioDuration ) ]_vars

\* --------------------------------------------------------------- C32
\* The finalizeTranscriptTurn calls suspended in saveMessage.
NSaves == NPending("saveUser") + NPending("saveDrona")

\* A finalizeTranscriptTurn reaches its end in this step: the one resumed by
\* its last saveMessage, or one that turnComplete or the safety timer called
\* and that had nothing to save.
FinalizeCompletes ==
  \/ NSaves' < NSaves
  \/ /\ NSaves' = NSaves
     /\ \/ timeoutsFired' > timeoutsFired
        \/ /\ Len(received') > Len(received)
           /\ received'[Len(received')].turnComplete

\* C32: when a finalize has completed, the messages the ids named are not
\* flagged as streaming in the message list, the streaming and listening
\* flags are false, and the buffers, the ids and firstTranscriptTimeRef are
\* cleared.
C32_FinalizeSettlesAndClears ==
  [][ FinalizeCompletes
        => ( /\ ({lastUserMsgIdRef, lastDronaMsgIdRef} \ {0})
                  \cap uiStreaming' = {}
             /\ ~isInteractionStreaming'
             /\ ~isListening'
             /\ currentInputTransRef' = <<>>
             /\ currentOutputTransRef' = <<>>
             /\ lastUserMsgIdRef' = 0
             /\ lastDronaMsgIdRef' = 0
             /\ ~firstTranscriptTimeRef' ) ]_vars

\* --------------------------------------------------------------- C33
\* The callback of a frame interval captures a frame in this step.
VideoFrameCaptured == frameSeq' = frameSeq + 1

\* C33: as long as no stop was called at most one frame interval is
\* registered; a tick of it sends the frame it captured to the current
\* transport if that is present and open and sends nothing otherwise, leaves
\* no operation suspended and nothing to send later, and no other step sends
\* a frame.
C33_OneFrameInterval ==
  /\ [](stops = <<>> => intervals <= 1)
  /\ [][ /\ VideoFrameCaptured
            => /\ sentFrames' =
                    sentFrames \cup
                      (IF TransportIsOpen
                       THEN {[frame |-> frameSeq', via |-> liveSessionRef]}
                       ELSE {})
               /\ pending' = pending
         /\ ~VideoFrameCaptured => sentFrames' = sentFrames
         /\ (Len(stops') = Len(stops) /\ frameIntervalRef)
            => (frameIntervalRef' /\ intervals' = intervals) ]_vars

\* One interval is registered after a retry and the reconnect that replaced
\* the failed transport of the retry; a frame captured while no transport
\* was open was dropped, the next one went to the second transport.
C33_Witness ==
  /\ stops = <<>>
  /\ intervals = 1
  /\ retries = 1
  /\ Len(transports) = 2
  /\ transports[2].st = "open"
  /\ frameSeq = 2
  /\ sentFrames = {[frame |-> 2, via |-> 2]}

\* --------------------------------------------------------------- C34
\* This step is the end of a track from outside the program: nothing but the
\* track changes.
EndedFromOutside ==
  /\ faults' = faults + 1
  /\ visionStreamRef' = visionStreamRef
  /\ streamRef' = streamRef
  /\ pending' = pending
  /\ transports' = transports

\* C34: a step that calls no stop and is not a step of start (a reconnect
\* attempt, a retry, a permission failure, a transport event) stops no track
\* and leaves a ref whose stream has a live track as it is.
C34_ReleasedOnlyByStop ==
  [][ ( /\ Len(stops') = Len(stops)
        /\ starts' = starts
        /\ NPending("startVideo")' >= NPending("startVideo")
        /\ NPending("startAudio")' >= NPending("startAudio") )
        => ( /\ \A i \in DOMAIN streams :
                  (streams[i].live /\ ~streams'[i].live) => EndedFromOutside
             /\ hasLiveVideo(State) => visionStreamRef' = visionStreamRef
             /\ hasLiveAudio(State) => streamRef' = streamRef ) ]_vars

\* --------------------------------------------------------------- C35
\* C35: in every reachable state reconnectingRef is set exactly when a
\* reconnect backoff timer is pending.
C35_FlagIffTimer == reconnectingRef <=> (reconnectTimerRef # 0)

\* A second backoff timer is pending: the first one fired, its reconnect was
\* refused and scheduleReconnect armed the next.
C35_Witness ==
  /\ reconnectingRef
  /\ reconnectTimerRef # 0
  /\ reconnectAttemptsRef >= 2

\* --------------------------------------------------------------- C36
\* C36: at most one transcript safety timer is pending, and a pending one is
\* the timer of the current turn: the one transcriptTimeoutRef names, armed
\* with the first fragment of the turn that firstTranscriptTimeRef marks as
\* begun; so no timeout fires for a turn before its own 12 seconds are over.
C36_OneSafetyTimerOfCurrentTurn ==
  /\ Cardinality(timers) <= 1
  /\ \A id \in timers : id = transcriptTimeoutRef /\ firstTranscriptTimeRef


\* --------------------------------------------------------------- C37
\* C37: whenever the audio capture pipeline is attached, its source node was
\* made from the microphone stream that streamRef holds, so that the frames
\* it captures come from the device acquired last.
C37_PipelineOnHeldMicrophone ==
  mediaSourceRef # 0 => mediaSourceRef = streamRef


\* --------------------------------------------------------------- C38
\* finalizeTranscriptTurn is called in this step by turnComplete or by the
\* safety timer.
FinalizeCalled ==
  \/ timeoutsFired' > timeoutsFired
  \/ /\ Len(received') > Len(received)
     /\ received'[Len(received')].turnComplete

\* C38: every message given to saveMessage has a text that is not empty after
\* trimming; a finalize called while activeSessionIdRef holds no session id
\* saves nothing, suspends in no save and still clears the buffers, the ids
\* and firstTranscriptTimeRef.
C38_NoEmptyMessagePersisted ==
  /\ [](\A i \in DOMAIN saved :
          saved[i].content # <<>> /\ Trim(saved[i].content) = saved[i].content)
  /\ [][ (FinalizeCalled /\ ~activeSessionIdRef)
           => ( /\ saved' = saved
                /\ NSaves' = NSaves
                /\ currentInputTransRef' = <<>>
                /\ currentOutputTransRef' = <<>>
                /\ lastUserMsgIdRef' = 0
                /\ lastDronaMsgIdRef' = 0
                /\ ~firstTranscriptTimeRef' ) ]_vars

\* A fragment of the assistant arrived, the chat session was deselected and
\* turnComplete arrived: the finalize has saved nothing and the buffers are
\* empty.
C38_Witness ==
  /\ ~activeSessionIdRef
  /\ Len(received) = 2
  /\ received[1].outTxt # <<>>
  /\ received[2].turnComplete
  /\ saved = <<>>
  /\ NSaves = 0
  /\ currentInputTransRef = <<>>
  /\ currentOutputTransRef = <<>>

\* --------------------------------------------------------------- C39
\* C39: whenever no audio message is suspended in its decode, the speaking
\* flag is set exactly when sourcesRef holds a source.
C39_SpeakingIffSources ==
  NPending("decode") = 0 => (isSpeaking <=> sourcesRef # {})


\* --------------------------------------------------------------- C40
\* C40: in the live proxy, once the client socket of a connection is closed
\* its upstream session is eventually closed (or was never established), and
\* once the upstream session is closed or its connect has failed the client
\* socket is eventually closed; this includes a client socket that closes
\* while the upstream connect is pending.
C40_ClosedTogether ==
  \A i \in 1 .. MaxConnections :
    /\ (i \in DOMAIN connections /\ connections[i].ws = "closed")
         ~> (i \in DOMAIN connections
               /\ connections[i].session \in {"closed", "failed"})
    /\ (i \in DOMAIN connections
          /\ connections[i].session \in {"closed", "failed"})
         ~> (i \in DOMAIN connections /\ connections[i].ws = "closed")

=============================================================================
